---- MODULE Spec2Model ----
(***************************************************************************)
(* A model of AmazonKnowledgeBasesRetriever                                *)
(* (libs/aws/langchain_aws/retrievers/bedrock.py): the request builder,    *)
(* the decoding of Retrieve API results into Documents, the score filter   *)
(* and the orchestration of one retrieve invocation.                       *)
(*                                                                         *)
(* Python values are records [k, s, n, d, l]: k is the kind ("None",       *)
(* "str", "num", "dict", "list", "model"), s the symbols of a string, n a  *)
(* number, d the items of a dict (or the fields of a pydantic model) as a  *)
(* function from keys, l the items of a list.  Scores and thresholds are   *)
(* counted in tenths (5 is 0.5).                                           *)
(***************************************************************************)
EXTENDS Integers, Sequences, FiniteSets, TLC

VARIABLES
    knowledge_base_id,      \* self.knowledge_base_id
    retrieval_config,       \* self.retrieval_config
    min_score_confidence,   \* self.min_score_confidence
    client,                 \* self.client (a reference)
    pc,                     \* per invocation: the line _get_relevant_documents is at
    query,                  \* per invocation: the argument query
    retrieve_request,       \* per invocation: the local retrieve_request
    results,                \* per invocation: the local results (mutated in place)
    documents,              \* per invocation: the local documents
    outcome,                \* per invocation: what the invocation returned or raised
    calls,                  \* per invocation: the requests sent to client.retrieve
    op,                     \* method-level runs: the method that was applied
    arg,                    \* method-level runs: its argument
    ret                     \* method-level runs: what it returned or raised

vars == <<knowledge_base_id, retrieval_config, min_score_confidence, client,
          pc, query, retrieve_request, results, documents, outcome, calls,
          op, arg, ret>>

selfVars == <<knowledge_base_id, retrieval_config, min_score_confidence, client>>

invVars == <<pc, query, retrieve_request, results, documents, outcome, calls>>

-----------------------------------------------------------------------------
(* Python values *)

None == [k |-> "None", s |-> <<>>, n |-> 0, d |-> <<>>, l |-> <<>>]

Str(s) == [k |-> "str", s |-> s, n |-> 0, d |-> <<>>, l |-> <<>>]

Num(n) == [k |-> "num", s |-> <<>>, n |-> n, d |-> <<>>, l |-> <<>>]

Dict(f) == [k |-> "dict", s |-> <<>>, n |-> 0, d |-> f, l |-> <<>>]

List(l) == [k |-> "list", s |-> <<>>, n |-> 0, d |-> <<>>, l |-> l]

Model(f) == [k |-> "model", s |-> <<>>, n |-> 0, d |-> f, l |-> <<>>]

\* bool(v): None, "", 0, {} and [] are falsy; a pydantic model is truthy
Truthy(v) ==
    CASE v.k = "None" -> FALSE
      [] v.k = "str" -> v.s # <<>>
      [] v.k = "num" -> v.n # 0
      [] v.k = "dict" -> DOMAIN v.d # {}
      [] v.k = "list" -> v.l # <<>>
      [] OTHER -> TRUE

\* key in v
Has(v, key) == key \in DOMAIN v.d

\* v.get(key, default)
GetOr(v, key, default) == IF Has(v, key) THEN v.d[key] ELSE default

\* v.get(key)
Get(v, key) == GetOr(v, key, None)

\* v[key] = val
Put(v, key, val) ==
    [v EXCEPT !.d = [x \in DOMAIN v.d \cup {key} |-> IF x = key THEN val ELSE v.d[x]]]

\* v.pop(key), the dict that is left
Pop(v, key) == [v EXCEPT !.d = [x \in DOMAIN v.d \ {key} |-> v.d[x]]]

\* a return value, or a raised exception
Return(v) == [exc |-> "", val |-> v]

Raise(e) == [exc |-> e, val |-> None]

-----------------------------------------------------------------------------
(* str.strip() *)

Whitespace == {" ", "\t", "\n"}

RECURSIVE lstrip(_)
lstrip(s) ==
    IF s # <<>> /\ Head(s) \in Whitespace THEN lstrip(Tail(s)) ELSE s

RECURSIVE rstrip(_)
rstrip(s) ==
    IF s # <<>> /\ s[Len(s)] \in Whitespace
    THEN rstrip(SubSeq(s, 1, Len(s) - 1))
    ELSE s

strip(s) == rstrip(lstrip(s))

-----------------------------------------------------------------------------
(* json.dumps, for None, strings, lists and dicts; a dict's items are      *)
(* written in the order of JsonKeyOrder.                                   *)

JsonKeyOrder == <<"columnName", "columnValue", "type">>

RECURSIVE Join(_, _)
Join(parts, sep) ==
    IF parts = <<>> THEN <<>>
    ELSE IF Len(parts) = 1 THEN parts[1]
    ELSE parts[1] \o sep \o Join(Tail(parts), sep)

KeysInOrder(f) == SelectSeq(JsonKeyOrder, LAMBDA key : key \in DOMAIN f)

RECURSIVE json_dumps(_)
json_dumps(v) ==
    CASE v.k = "None" -> <<"null">>
      [] v.k = "str" -> <<"\"">> \o v.s \o <<"\"">>
      [] v.k = "list" ->
            <<"[">> \o Join([i \in 1..Len(v.l) |-> json_dumps(v.l[i])], <<", ">>) \o <<"]">>
      [] v.k = "dict" ->
            LET keys == KeysInOrder(v.d)
                item(i) == <<"\"", keys[i], "\"", ": ">> \o json_dumps(v.d[keys[i]])
            IN  <<"{">> \o Join([i \in 1..Len(keys) |-> item(i)], <<", ">>) \o <<"}">>

-----------------------------------------------------------------------------
(* _get_content_from_result *)

\* the row serialized as it is found
_get_content_from_result_raw_row(result) ==
    IF ~Truthy(result) THEN Raise("ValueError: Invalid search result")
    ELSE LET content == Get(result, "content") IN
        IF ~Truthy(content)
        THEN Raise("ValueError: Invalid search result, content is missing from the result")
        ELSE IF ~Truthy(Get(content, "type")) THEN Return(Get(content, "text"))
        ELSE IF content.d["type"] = Str(<<"TEXT">>) THEN Return(Get(content, "text"))
        ELSE IF content.d["type"] = Str(<<"IMAGE">>) THEN Return(Get(content, "byteContent"))
        ELSE IF content.d["type"] = Str(<<"ROW">>) THEN Return(Str(json_dumps(Get(content, "row"))))
        ELSE Return(None)

\* an unknown type taken for a text
_get_content_from_result_text_default(result) ==
    IF ~Truthy(result) THEN Raise("ValueError: Invalid search result")
    ELSE LET content == Get(result, "content") IN
        IF ~Truthy(content)
        THEN Raise("ValueError: Invalid search result, content is missing from the result")
        ELSE IF ~Truthy(Get(content, "type")) THEN Return(Get(content, "text"))
        ELSE IF content.d["type"] = Str(<<"IMAGE">>) THEN Return(Get(content, "byteContent"))
        ELSE IF content.d["type"] = Str(<<"ROW">>) THEN
            LET row == GetOr(content, "row", List(<<>>))
            IN  Return(Str(json_dumps(IF Truthy(row) THEN row ELSE List(<<>>))))
        ELSE Return(Get(content, "text"))

_get_content_from_result(result) ==
    IF ~Truthy(result) THEN Raise("ValueError: Invalid search result")
    ELSE LET content == Get(result, "content") IN
        IF ~Truthy(content)
        THEN Raise("ValueError: Invalid search result, content is missing from the result")
        ELSE IF ~Truthy(Get(content, "type")) THEN Return(Get(content, "text"))
        ELSE IF content.d["type"] = Str(<<"TEXT">>) THEN Return(Get(content, "text"))
        ELSE IF content.d["type"] = Str(<<"IMAGE">>) THEN Return(Get(content, "byteContent"))
        ELSE IF content.d["type"] = Str(<<"ROW">>) THEN
            LET row == GetOr(content, "row", List(<<>>))
            IN  Return(Str(json_dumps(IF Truthy(row) THEN row ELSE List(<<>>))))
        ELSE Return(None)

-----------------------------------------------------------------------------
(* _retrieval_results_to_documents *)

\* Document(page_content=..., metadata=...), any page_content taken as given
Document(page_content, metadata) == [page_content |-> page_content, metadata |-> metadata]

\* lines 208-213: the record as the loop body leaves it
ReshapeResult(result) ==
    LET r1 == Put(result, "type", GetOr(GetOr(result, "content", Dict(<<>>)), "type", Str(<<"TEXT">>)))
        r2 == Pop(r1, "content")
        r3 == IF ~Has(r2, "score") THEN Put(r2, "score", Num(0)) ELSE r2
        r4 == IF Has(r3, "metadata") THEN Put(Pop(r3, "metadata"), "source_metadata", r3.d["metadata"]) ELSE r3
    IN  r4

\* the loop with a result that does not decode skipped
RECURSIVE ConvertFrom_skip(_, _, _)
ConvertFrom_skip(res, i, docs) ==
    IF i > Len(res) THEN [exc |-> "", documents |-> docs, results |-> res]
    ELSE LET content == _get_content_from_result(res[i]) IN
        IF content.exc # "" THEN ConvertFrom_skip(res, i + 1, docs)
        ELSE LET result == ReshapeResult(res[i])
             IN  ConvertFrom_skip([res EXCEPT ![i] = result], i + 1,
                                  Append(docs, Document(content.val, result)))

\* the loop with each document put in front
RECURSIVE ConvertFrom_front(_, _, _)
ConvertFrom_front(res, i, docs) ==
    IF i > Len(res) THEN [exc |-> "", documents |-> docs, results |-> res]
    ELSE LET content == _get_content_from_result(res[i]) IN
        IF content.exc # "" THEN [exc |-> content.exc, documents |-> docs, results |-> res]
        ELSE LET result == ReshapeResult(res[i])
             IN  ConvertFrom_front([res EXCEPT ![i] = result], i + 1,
                                   <<Document(content.val, result)>> \o docs)

\* the loop from index i on: the exception (if any), the documents appended
\* and the results list as the loop leaves it
RECURSIVE ConvertFrom(_, _, _)
ConvertFrom(res, i, docs) ==
    IF i > Len(res) THEN [exc |-> "", documents |-> docs, results |-> res]
    ELSE LET content == _get_content_from_result(res[i]) IN
        IF content.exc # "" THEN [exc |-> content.exc, documents |-> docs, results |-> res]
        ELSE LET result == ReshapeResult(res[i])
             IN  ConvertFrom([res EXCEPT ![i] = result], i + 1,
                             Append(docs, Document(content.val, result)))

_retrieval_results_to_documents(res) == ConvertFrom(res, 1, <<>>)

-----------------------------------------------------------------------------
(* _filter_by_score_confidence *)

\* the test with a strict comparison
KeepsScore_strict(item, min_score) ==
    /\ Get(item.metadata, "score") # None
    /\ GetOr(item.metadata, "score", Num(0)).n > min_score.n

KeepsScore(item, min_score) ==
    /\ Get(item.metadata, "score") # None
    /\ GetOr(item.metadata, "score", Num(0)).n >= min_score.n

_filter_by_score_confidence(min_score, docs) ==
    IF ~Truthy(min_score) THEN docs
    ELSE SelectSeq(docs, LAMBDA item : KeepsScore(item, min_score))

-----------------------------------------------------------------------------
(* BaseModel.model_dump(exclude_none=True, by_alias=True) *)

\* Field(None, alias="in") on SearchFilter.in_; every other field is dumped
\* under its own name
Alias(key) == IF key = "in_" THEN "in" ELSE key

RECURSIVE model_dump(_)
model_dump(v) ==
    CASE v.k = "model" ->
            LET kept == {key \in DOMAIN v.d : v.d[key] # None}
            IN  Dict([a \in {Alias(key) : key \in kept} |->
                        model_dump(v.d[CHOOSE key \in kept : Alias(key) = a])])
      [] v.k = "dict" ->
            Dict([key \in {x \in DOMAIN v.d : v.d[x] # None} |-> model_dump(v.d[key])])
      [] v.k = "list" -> List([i \in 1..Len(v.l) |-> model_dump(v.l[i])])
      [] OTHER -> v

-----------------------------------------------------------------------------
(* _get_retrieve_request; config is a RetrievalConfig or None *)

\* the request with retrievalConfiguration always set (None without a config)
_get_retrieve_request_always_config(kb_id, config, q) ==
    LET request == Dict(("retrievalQuery" :> Dict("text" :> Str(strip(q))))
                        @@ ("knowledgeBaseId" :> kb_id))
    IN  Put(request, "retrievalConfiguration",
            IF Truthy(config) THEN model_dump(config) ELSE None)

_get_retrieve_request(kb_id, config, q) ==
    LET request == Dict(("retrievalQuery" :> Dict("text" :> Str(strip(q))))
                        @@ ("knowledgeBaseId" :> kb_id))
    IN  IF Truthy(config)
        THEN Put(request, "retrievalConfiguration", model_dump(config))
        ELSE request

-----------------------------------------------------------------------------
(* The configuration classes: every declared field is set, None by default *)

SearchFilterFields ==
    {"andAll", "orAll", "equals", "greaterThan", "greaterThanOrEquals", "in_",
     "lessThan", "lessThanOrEquals", "listContains", "notEquals", "notIn",
     "startsWith", "stringContains"}

SearchFilter(f) ==
    Model([key \in SearchFilterFields |-> IF key \in DOMAIN f THEN f[key] ELSE None])

VectorSearchConfig(numberOfResults, filter, overrideSearchType) ==
    Model(("numberOfResults" :> numberOfResults) @@ ("filter" :> filter)
          @@ ("overrideSearchType" :> overrideSearchType))

RetrievalConfig(vectorSearchConfiguration, nextToken) ==
    Model(("vectorSearchConfiguration" :> vectorSearchConfiguration)
          @@ ("nextToken" :> nextToken))

-----------------------------------------------------------------------------
(* The inputs *)

MaxQueryLen == 3

MaxDocs == 4

MaxResults == 3

MaxSharedResults == 2

QueryChars == {" ", "a"}

Queries == UNION {[1..n -> QueryChars] : n \in 0..MaxQueryLen}

KnowledgeBaseIds == {Str(<<"kb-1">>), Str(<<"kb-2">>)}

FilterLeaf(key, value) == Dict(("key" :> Str(<<key>>)) @@ ("value" :> value))

SearchFilters ==
    { None,
      SearchFilter("in_" :> FilterLeaf("year", List(<<Str(<<"2024">>)>>))),
      SearchFilter("andAll" :> List(<<
          SearchFilter("equals" :> FilterLeaf("lang", Str(<<"en">>))),
          SearchFilter("notIn" :> FilterLeaf("tag", List(<<Str(<<"x">>)>>))) >>)) }

RetrievalConfigs ==
    { RetrievalConfig(VectorSearchConfig(nr, fl, st), tok) :
        nr \in {Num(4), Num(5)},
        fl \in SearchFilters,
        st \in {None, Str(<<"HYBRID">>), Str(<<"SEMANTIC">>)},
        tok \in {None, Str(<<"tok">>)} }

\* Optional[float] with ge=0.0, le=1.0, in tenths
MinScores == {None, Num(0), Num(5), Num(10)}

\* stands for a key that is not in the dict
Absent == [k |-> "absent", s |-> <<>>, n |-> 0, d |-> <<>>, l |-> <<>>]

\* the dict of the items whose value is not Absent
DictOf(items) == Dict([key \in {x \in DOMAIN items : items[x] # Absent} |-> items[key]])

Cell(name, value) ==
    Dict(("columnName" :> Str(<<name>>)) @@ ("columnValue" :> Str(<<value>>))
         @@ ("type" :> Str(<<"STRING">>)))

Rows ==
    { Absent, None, List(<<>>), List(<<Cell("id", "7")>>),
      List(<<Cell("id", "7"), Dict("columnName" :> Str(<<"n">>))>>) }

Contents ==
    { Absent, None, Dict(<<>>) }
    \cup { DictOf(("type" :> ty) @@ ("text" :> tx)) :
            ty \in {Absent, None, Str(<<>>), Str(<<"TEXT">>), Str(<<"AUDIO">>)},
            tx \in {Absent, Str(<<"hi">>)} }
    \cup { DictOf(("type" :> Str(<<"IMAGE">>)) @@ ("byteContent" :> b) @@ ("text" :> tx)) :
            b \in {Absent, Str(<<"data:image/png;base64,", "iVBOR">>)},
            tx \in {Absent, Str(<<"hi">>)} }
    \cup { DictOf(("type" :> Str(<<"ROW">>)) @@ ("row" :> row)) : row \in Rows }

Scores == {Absent, None, Num(0), Num(7)}

RawResults ==
    { None }
    \cup { DictOf(("content" :> c) @@ ("score" :> sc) @@ ("metadata" :> md) @@ ("location" :> loc)) :
            c \in Contents,
            sc \in Scores,
            md \in {Absent, Dict("a" :> Num(1))},
            loc \in {Absent, Str(<<"s3://b/k">>)} }

DocScores == {Absent, None, Num(3), Num(5), Num(9)}

Docs ==
    { Document(Str(<<"hi">>), DictOf(("type" :> Str(<<"TEXT">>)) @@ ("score" :> sc))) :
        sc \in DocScores }
    \cup { Document(None, DictOf(("type" :> Str(<<"AUDIO">>)) @@ ("score" :> Num(9))
                                  @@ ("source_metadata" :> Dict("a" :> Num(1))))) }

DocLists == UNION {[1..n -> Docs] : n \in 0..MaxDocs}

-----------------------------------------------------------------------------
(* Invocations of _get_relevant_documents *)

Invocations == {"i1", "i2"}

InvIdle ==
    /\ pc = [i \in Invocations |-> "idle"]
    /\ query = [i \in Invocations |-> <<>>]
    /\ retrieve_request = [i \in Invocations |-> None]
    /\ results = [i \in Invocations |-> <<>>]
    /\ documents = [i \in Invocations |-> <<>>]
    /\ outcome = [i \in Invocations |-> Return(None)]
    /\ calls = [i \in Invocations |-> <<>>]

MethodIdle == op = "none" /\ arg = None /\ ret = Return(None)

-----------------------------------------------------------------------------
(* _get_retrieve_request applied to any query, by any retriever *)

RequestInit ==
    /\ knowledge_base_id \in KnowledgeBaseIds
    /\ retrieval_config \in RetrievalConfigs \cup {None}
    /\ min_score_confidence = None
    /\ client = "bedrock-agent-runtime"
    /\ InvIdle
    /\ op = "none"
    /\ arg \in Queries
    /\ ret = Return(None)

GetRetrieveRequest ==
    /\ op = "none"
    /\ op' = "_get_retrieve_request"
    /\ ret' = Return(_get_retrieve_request(knowledge_base_id, retrieval_config, arg))
    /\ UNCHANGED <<arg, selfVars, invVars>>

RequestNext == GetRetrieveRequest

RequestSpec == RequestInit /\ [][RequestNext]_vars

-----------------------------------------------------------------------------
(* the decoding of one raw result *)

DecodeInit ==
    /\ knowledge_base_id \in KnowledgeBaseIds
    /\ retrieval_config = None
    /\ min_score_confidence = None
    /\ client = "bedrock-agent-runtime"
    /\ InvIdle
    /\ op = "none"
    /\ arg \in RawResults
    /\ ret = Return(None)

GetContentFromResult ==
    /\ op = "none"
    /\ op' = "_get_content_from_result"
    /\ ret' = _get_content_from_result(arg)
    /\ UNCHANGED <<arg, selfVars, invVars>>

RetrievalResultsToDocuments ==
    /\ op = "none"
    /\ op' = "_retrieval_results_to_documents"
    /\ ret' = _retrieval_results_to_documents(<<arg>>)
    /\ UNCHANGED <<arg, selfVars, invVars>>

DecodeNext == GetContentFromResult \/ RetrievalResultsToDocuments

DecodeSpec == DecodeInit /\ [][DecodeNext]_vars

-----------------------------------------------------------------------------
(* _filter_by_score_confidence applied to any list of documents *)

FilterInit ==
    /\ knowledge_base_id \in KnowledgeBaseIds
    /\ retrieval_config = None
    /\ min_score_confidence \in MinScores
    /\ client = "bedrock-agent-runtime"
    /\ InvIdle
    /\ op = "none"
    /\ arg \in DocLists
    /\ ret = Return(None)

FilterByScoreConfidence ==
    /\ op = "none"
    /\ op' = "_filter_by_score_confidence"
    /\ ret' = Return(_filter_by_score_confidence(min_score_confidence, arg))
    /\ UNCHANGED <<arg, selfVars, invVars>>

FilterNext == FilterByScoreConfidence

FilterSpec == FilterInit /\ [][FilterNext]_vars

-----------------------------------------------------------------------------
(* _get_relevant_documents *)

Queries2 == {<<" ", "a", " ">>, <<"b">>}

ResponseResults ==
    { DictOf(("content" :> Dict(("type" :> Str(<<"TEXT">>)) @@ ("text" :> Str(<<"hi">>))))
             @@ ("score" :> Num(9)) @@ ("metadata" :> Dict("a" :> Num(1)))),
      DictOf(("content" :> Dict(("type" :> Str(<<"ROW">>)) @@ ("row" :> List(<<Cell("id", "7")>>))))
             @@ ("score" :> Num(5))),
      DictOf(("content" :> Dict("type" :> Str(<<"AUDIO">>)))
             @@ ("location" :> Str(<<"s3://b/k">>))),
      DictOf(("content" :> Dict("text" :> Str(<<"yo">>))) @@ ("score" :> None)),
      DictOf(("content" :> Dict(<<>>)) @@ ("score" :> Num(9))),
      DictOf("score" :> Num(3)),
      Dict(<<>>),
      None }

\* the raw results of the interleaved invocations
SharedResults ==
    { DictOf(("content" :> Dict(("type" :> Str(<<"TEXT">>)) @@ ("text" :> Str(<<"hi">>))))
             @@ ("score" :> Num(9)) @@ ("metadata" :> Dict("a" :> Num(1)))),
      DictOf(("content" :> Dict("type" :> Str(<<"AUDIO">>)))
             @@ ("location" :> Str(<<"s3://b/k">>))),
      DictOf(("content" :> Dict(<<>>)) @@ ("score" :> Num(9))) }

\* what client.retrieve can answer: {"retrievalResults": [...]}, or an exception
Responses == UNION {[1..n -> ResponseResults] : n \in 0..MaxResults}

SharedResponses == UNION {[1..n -> SharedResults] : n \in 0..MaxSharedResults}

ClientErrors == {"ClientError: ThrottlingException"}

Init ==
    /\ knowledge_base_id = Str(<<"kb-1">>)
    /\ retrieval_config \in
        {None, RetrievalConfig(VectorSearchConfig(Num(4), None, None), Str(<<"tok">>))}
    /\ min_score_confidence \in {None, Num(0), Num(5)}
    /\ client = "bedrock-agent-runtime"
    /\ InvIdle
    /\ MethodIdle

\* a caller enters _get_relevant_documents(query): a fresh frame
Invoke(i) ==
    /\ pc[i] \in {"idle", "returned", "raised"}
    /\ \E q \in Queries2 : query' = [query EXCEPT ![i] = q]
    /\ pc' = [pc EXCEPT ![i] = "169"]
    /\ retrieve_request' = [retrieve_request EXCEPT ![i] = None]
    /\ results' = [results EXCEPT ![i] = <<>>]
    /\ documents' = [documents EXCEPT ![i] = <<>>]
    /\ outcome' = [outcome EXCEPT ![i] = Return(None)]
    /\ calls' = [calls EXCEPT ![i] = <<>>]
    /\ UNCHANGED <<selfVars, op, arg, ret>>

\* line 169
BuildRequest(i) ==
    /\ pc[i] = "169"
    /\ retrieve_request' = [retrieve_request EXCEPT ![i] =
            _get_retrieve_request(knowledge_base_id, retrieval_config, query[i])]
    /\ pc' = [pc EXCEPT ![i] = "170"]
    /\ UNCHANGED <<selfVars, query, results, documents, outcome, calls, op, arg, ret>>

\* lines 170-171: the remote call answers
ClientRetrieve(i, answers) ==
    /\ pc[i] = "170"
    /\ \E response \in answers :
        /\ calls' = [calls EXCEPT ![i] = Append(@,
                [request |-> retrieve_request[i], response |-> Return(List(response))])]
        /\ results' = [results EXCEPT ![i] = response]
    /\ pc' = [pc EXCEPT ![i] = "174"]
    /\ UNCHANGED <<selfVars, query, retrieve_request, documents, outcome, op, arg, ret>>

\* the remote call tried again after it raised
ClientRaises_retry(i) ==
    /\ pc[i] = "170"
    /\ \E e \in ClientErrors :
        /\ calls' = [calls EXCEPT ![i] = Append(@,
                [request |-> retrieve_request[i], response |-> Raise(e)])]
        /\ outcome' = [outcome EXCEPT ![i] = Raise(e)]
    /\ pc' = [pc EXCEPT ![i] = IF Len(calls[i]) = 0 THEN "170" ELSE "raised"]
    /\ UNCHANGED <<selfVars, query, retrieve_request, results, documents, op, arg, ret>>

\* line 170: the remote call raises
ClientRaises(i) ==
    /\ pc[i] = "170"
    /\ \E e \in ClientErrors :
        /\ calls' = [calls EXCEPT ![i] = Append(@,
                [request |-> retrieve_request[i], response |-> Raise(e)])]
        /\ outcome' = [outcome EXCEPT ![i] = Raise(e)]
    /\ pc' = [pc EXCEPT ![i] = "raised"]
    /\ UNCHANGED <<selfVars, query, retrieve_request, results, documents, op, arg, ret>>

\* the documents kept in one list for all invocations
ToDocuments_shared(i) ==
    /\ pc[i] = "174"
    /\ LET conv == _retrieval_results_to_documents(results[i]) IN
        /\ results' = [results EXCEPT ![i] = conv.results]
        /\ IF conv.exc # ""
           THEN /\ outcome' = [outcome EXCEPT ![i] = Raise(conv.exc)]
                /\ pc' = [pc EXCEPT ![i] = "raised"]
                /\ UNCHANGED documents
           ELSE /\ documents' = [j \in Invocations |-> documents[j] \o conv.documents]
                /\ pc' = [pc EXCEPT ![i] = "176"]
                /\ UNCHANGED outcome
    /\ UNCHANGED <<selfVars, query, retrieve_request, calls, op, arg, ret>>

\* lines 172-174
ToDocuments(i) ==
    /\ pc[i] = "174"
    /\ LET conv == _retrieval_results_to_documents(results[i]) IN
        /\ results' = [results EXCEPT ![i] = conv.results]
        /\ IF conv.exc # ""
           THEN /\ outcome' = [outcome EXCEPT ![i] = Raise(conv.exc)]
                /\ pc' = [pc EXCEPT ![i] = "raised"]
                /\ UNCHANGED documents
           ELSE /\ documents' = [documents EXCEPT ![i] = conv.documents]
                /\ pc' = [pc EXCEPT ![i] = "176"]
                /\ UNCHANGED outcome
    /\ UNCHANGED <<selfVars, query, retrieve_request, calls, op, arg, ret>>

\* line 176
FilterAndReturn(i) ==
    /\ pc[i] = "176"
    /\ outcome' = [outcome EXCEPT ![i] =
            Return(List(_filter_by_score_confidence(min_score_confidence, documents[i])))]
    /\ pc' = [pc EXCEPT ![i] = "returned"]
    /\ UNCHANGED <<selfVars, query, retrieve_request, results, documents, calls, op, arg, ret>>

\* one caller, one invocation after the other
Next ==
    \/ Invoke("i1")
    \/ BuildRequest("i1")
    \/ ClientRetrieve("i1", Responses)
    \/ ClientRaises("i1")
    \/ ToDocuments("i1")
    \/ FilterAndReturn("i1")

Spec == Init /\ [][Next]_vars

\* concurrent callers: the invocations interleave line by line
SharedNext ==
    \E i \in Invocations :
        \/ Invoke(i)
        \/ BuildRequest(i)
        \/ ClientRetrieve(i, SharedResponses)
        \/ ClientRaises(i)
        \/ ToDocuments(i)
        \/ FilterAndReturn(i)

SharedSpec == Init /\ [][SharedNext]_vars

-----------------------------------------------------------------------------
(* The configuration classes built back from a nested mapping: aliases are *)
(* read back, fields that are not given take their defaults.               *)

RECURSIVE ValidateSearchFilter(_)
ValidateSearchFilter(v) ==
    LET field(key) ==
            IF ~Has(v, Alias(key)) THEN None
            ELSE IF key \in {"andAll", "orAll"}
                 THEN List([i \in 1..Len(v.d[Alias(key)].l) |->
                                ValidateSearchFilter(v.d[Alias(key)].l[i])])
                 ELSE v.d[Alias(key)]
    IN  Model([key \in SearchFilterFields |-> field(key)])

ValidateVectorSearchConfig(v) ==
    VectorSearchConfig(GetOr(v, "numberOfResults", Num(4)),
                       IF Has(v, "filter") THEN ValidateSearchFilter(v.d["filter"]) ELSE None,
                       Get(v, "overrideSearchType"))

ValidateRetrievalConfig(v) ==
    RetrievalConfig(ValidateVectorSearchConfig(v.d["vectorSearchConfiguration"]),
                    Get(v, "nextToken"))

\* no None anywhere in a dumped value
RECURSIVE NoNone(_)
NoNone(v) ==
    /\ v # None
    /\ v.k = "dict" => \A key \in DOMAIN v.d : NoNone(v.d[key])
    /\ v.k = "list" => \A i \in 1..Len(v.l) : NoNone(v.l[i])

\* the keys used anywhere in a dumped value
RECURSIVE KeysOf(_)
KeysOf(v) ==
    CASE v.k = "dict" -> DOMAIN v.d \cup UNION {KeysOf(v.d[key]) : key \in DOMAIN v.d}
      [] v.k = "list" -> UNION {KeysOf(v.l[i]) : i \in 1..Len(v.l)}
      [] OTHER -> {}

\* t is s without its leading and trailing whitespace
IsStripped(t, s) ==
    /\ t = <<>> \/ (t[1] \notin Whitespace /\ t[Len(t)] \notin Whitespace)
    /\ \E a, b \in 0..Len(s) :
        /\ a + b + Len(t) = Len(s)
        /\ \A i \in 1..a : s[i] \in Whitespace
        /\ \A i \in 1..b : s[Len(s) + 1 - i] \in Whitespace
        /\ \A i \in 1..Len(t) : t[i] = s[a + i]

-----------------------------------------------------------------------------
\* the positions of docs whose score is present, not None and >= min_score
KeptPositions(docs, min_score) ==
    { i \in 1..Len(docs) :
        /\ Has(docs[i].metadata, "score")
        /\ docs[i].metadata.d["score"].k = "num"
        /\ docs[i].metadata.d["score"].n >= min_score.n }

\* the j-th smallest member of a set of positions
NthOf(positions, j) ==
    CHOOSE i \in positions : Cardinality({x \in positions : x < i}) = j - 1

\* out is docs restricted to positions, in the order of docs
IsSelection(out, docs, positions) ==
    /\ Len(out) = Cardinality(positions)
    /\ \A j \in 1..Len(out) : out[j] = docs[NthOf(positions, j)]

\* C4: with min_score_confidence None or 0 the documents are returned
\* unchanged; otherwise exactly the documents whose score is present, not
\* None and >= the threshold are returned, unmodified and in their order.
C4_ConfidenceFilter ==
    op = "_filter_by_score_confidence" =>
        /\ ret.exc = ""
        /\ min_score_confidence \in {None, Num(0)} => ret.val = arg
        /\ min_score_confidence \notin {None, Num(0)} =>
            IsSelection(ret.val, arg, KeptPositions(arg, min_score_confidence))

\* scores [0.9, 0.3, None, 0.5] under the threshold 0.5: 0.9 and 0.5 are kept
C4_Witness ==
    /\ op = "_filter_by_score_confidence"
    /\ min_score_confidence = Num(5)
    /\ Len(arg) = 4
    /\ \A i \in 1..4 : Has(arg[i].metadata, "score")
    /\ [i \in 1..4 |-> arg[i].metadata.d["score"]] = <<Num(9), Num(3), None, Num(5)>>
    /\ ret.val = <<arg[1], arg[4]>>

-----------------------------------------------------------------------------
(* A reader of JSON text, to tell what a serialized row denotes *)

ParseFail == [ok |-> FALSE, val |-> None, next |-> 0]

ParseOk(v, next) == [ok |-> TRUE, val |-> v, next |-> next]

RECURSIVE ParseValue(_, _), ParseItems(_, _, _), ParseMembers(_, _, _)
ParseValue(t, i) ==
    IF i > Len(t) THEN ParseFail
    ELSE IF t[i] = "null" THEN ParseOk(None, i + 1)
    ELSE IF t[i] = "\"" THEN
        LET closing == {j \in (i + 1)..Len(t) : t[j] = "\""} IN
        IF closing = {} THEN ParseFail
        ELSE LET j == CHOOSE x \in closing : \A y \in closing : x <= y
             IN  ParseOk(Str(SubSeq(t, i + 1, j - 1)), j + 1)
    ELSE IF t[i] = "[" THEN
        IF i + 1 <= Len(t) /\ t[i + 1] = "]" THEN ParseOk(List(<<>>), i + 2)
        ELSE ParseItems(t, i + 1, <<>>)
    ELSE IF t[i] = "{" THEN
        IF i + 1 <= Len(t) /\ t[i + 1] = "}" THEN ParseOk(Dict(<<>>), i + 2)
        ELSE ParseMembers(t, i + 1, <<>>)
    ELSE ParseFail

ParseItems(t, i, acc) ==
    LET v == ParseValue(t, i) IN
    IF ~v.ok \/ v.next > Len(t) THEN ParseFail
    ELSE IF t[v.next] = ", " THEN ParseItems(t, v.next + 1, Append(acc, v.val))
    ELSE IF t[v.next] = "]" THEN ParseOk(List(Append(acc, v.val)), v.next + 1)
    ELSE ParseFail

ParseMembers(t, i, acc) ==
    LET key == ParseValue(t, i) IN
    IF ~key.ok \/ key.val.k # "str" \/ Len(key.val.s) # 1 \/ key.next > Len(t) THEN ParseFail
    ELSE IF t[key.next] # ": " THEN ParseFail
    ELSE LET v == ParseValue(t, key.next + 1)
             items == (key.val.s[1] :> v.val) @@ acc
         IN  IF ~v.ok \/ v.next > Len(t) THEN ParseFail
             ELSE IF t[v.next] = ", " THEN ParseMembers(t, v.next + 1, items)
             ELSE IF t[v.next] = "}" THEN ParseOk(Dict(items), v.next + 1)
             ELSE ParseFail

json_loads(t) ==
    LET v == ParseValue(t, 1)
    IN  IF v.ok /\ v.next = Len(t) + 1 THEN v ELSE ParseFail

-----------------------------------------------------------------------------
\* the raw result is a dict whose content is a non-empty dict
HasContent(result) ==
    /\ result.k = "dict"
    /\ Has(result, "content")
    /\ result.d["content"].k = "dict"
    /\ DOMAIN result.d["content"].d # {}

KnownTypes == {Str(<<"TEXT">>), Str(<<"IMAGE">>), Str(<<"ROW">>)}

\* C7: for a content of type ROW the body is always JSON array text: the
\* serialization of row when row is present (and not empty), "[]" when row
\* is absent, None or empty; never None, never another JSON value.
C7_RowIsJsonArray ==
    (/\ op = "_get_content_from_result"
     /\ HasContent(arg)
     /\ Get(arg.d["content"], "type") = Str(<<"ROW">>)) =>
        LET row == Get(arg.d["content"], "row")
            parsed == json_loads(ret.val.s)
        IN  /\ ret.exc = ""
            /\ ret.val.k = "str"
            /\ parsed.ok
            /\ parsed.val.k = "list"
            /\ Truthy(row) => parsed.val = row
            /\ ~Truthy(row) => ret.val.s = <<"[", "]">>

\* a row of two cells was serialized
C7_Witness ==
    /\ op = "_get_content_from_result"
    /\ HasContent(arg)
    /\ Get(arg.d["content"], "type") = Str(<<"ROW">>)
    /\ Len(Get(arg.d["content"], "row").l) = 2
    /\ json_loads(ret.val.s).val = arg.d["content"].d["row"]
    /\ ret.val.s[1] = "[" /\ ret.val.s[2] = "{"

C3_TypeAndScore ==
    (op = "_retrieval_results_to_documents" /\ ret.exc = "") =>
        \A j \in 1..Len(ret.documents) :
            LET metadata == ret.documents[j].metadata IN
            /\ Has(metadata, "type")
            /\ metadata.d["type"].k = "str"
            /\ Has(metadata, "score")
            /\ metadata.d["score"].k = "num"

\* C8: the metadata of a decoded result is the raw record without content,
\* with type the content's tag, or "TEXT" whenever the body is extracted as
\* text for want of a tag, with score 0 if it was absent and as given
\* otherwise, with metadata moved to source_metadata if and only if it was
\* there, and with every other field as it was.
C8_Normalization ==
    (op = "_retrieval_results_to_documents" /\ ret.exc = "") =>
        LET metadata == ret.documents[1].metadata
            content == arg.d["content"]
            others == DOMAIN arg.d \ {"content", "score", "metadata", "type", "source_metadata"}
        IN
        /\ Len(ret.documents) = 1
        /\ DOMAIN metadata.d = others \cup {"type", "score"}
                \cup (IF Has(arg, "metadata") THEN {"source_metadata"} ELSE {})
        /\ metadata.d["type"] =
                IF ~Truthy(Get(content, "type")) THEN Str(<<"TEXT">>) ELSE content.d["type"]
        /\ metadata.d["score"] = IF Has(arg, "score") THEN arg.d["score"] ELSE Num(0)
        /\ Has(arg, "metadata") => metadata.d["source_metadata"] = arg.d["metadata"]
        /\ \A key \in others : metadata.d[key] = arg.d[key]

-----------------------------------------------------------------------------
\* what the remote call answered to invocation i, as it was received
Answer(i) == calls[i][1].response

RawResultsOf(i) == Answer(i).val.l

\* the Document one raw result decodes to
Decoded(result) == _retrieval_results_to_documents(<<result>>).documents[1]

\* a raw result without a usable content
IsInvalid(result) ==
    \/ result = None
    \/ result = Dict(<<>>)
    \/ ~Has(result, "content")
    \/ result.d["content"] = None
    \/ result.d["content"] = Dict(<<>>)

\* C1: when every result decodes, the invocation returns the decoded results
\* filtered by confidence: the returned documents are the decoded results at
\* increasing positions of the response, and with min_score_confidence None
\* or 0 there is one document per raw result, in the order of the response.
C1_RetrieveIsFilterOfDecode ==
    \A i \in Invocations :
        pc[i] = "returned" =>
            LET raw == RawResultsOf(i)
                decoded == [j \in 1..Len(raw) |-> Decoded(raw[j])]
                out == outcome[i].val.l
            IN  /\ outcome[i].exc = ""
                /\ outcome[i].val.k = "list"
                /\ \E positions \in SUBSET (1..Len(raw)) : IsSelection(out, decoded, positions)
                /\ min_score_confidence \in {None, Num(0)} =>
                    /\ Len(out) = Len(raw)
                    /\ \A j \in 1..Len(raw) : out[j] = Decoded(raw[j])
                /\ min_score_confidence \notin {None, Num(0)} =>
                    IsSelection(out, decoded, KeptPositions(decoded, min_score_confidence))

\* three results came back, the threshold kept the first and the last
C1_Witness ==
    /\ pc["i1"] = "returned"
    /\ min_score_confidence = Num(5)
    /\ Len(RawResultsOf("i1")) = 3
    /\ Len(outcome["i1"].val.l) = 2
    /\ outcome["i1"].val.l[1] = Decoded(RawResultsOf("i1")[1])
    /\ outcome["i1"].val.l[2] = Decoded(RawResultsOf("i1")[3])
    /\ outcome["i1"].val.l[1] # outcome["i1"].val.l[2]

\* C5: a raw result that is None or empty, or whose content is missing or
\* empty, makes the decoding raise ValueError, and the whole invocation
\* raises it and returns no documents, whatever precedes or follows the
\* result; an invocation that got past the decoding had no such result.
C5_FailFast ==
    \A i \in Invocations :
        (Len(calls[i]) = 1 /\ Answer(i).exc = "") =>
            LET raw == RawResultsOf(i)
                invalid == {j \in 1..Len(raw) : IsInvalid(raw[j])}
            IN  /\ \A j \in invalid : _get_content_from_result(raw[j]).exc \in
                        {"ValueError: Invalid search result",
                         "ValueError: Invalid search result, content is missing from the result"}
                /\ (invalid # {} /\ pc[i] # "174") =>
                    /\ pc[i] = "raised"
                    /\ outcome[i].exc = _get_content_from_result(raw[NthOf(invalid, 1)]).exc
                    /\ outcome[i].val = None
                    /\ documents[i] = <<>>
                /\ pc[i] \in {"176", "returned"} => invalid = {}
                /\ pc[i] = "raised" => invalid # {}

\* a result without content between two results that decode
C5_Witness ==
    /\ pc["i1"] = "raised"
    /\ Len(calls["i1"]) = 1
    /\ Answer("i1").exc = ""
    /\ Len(RawResultsOf("i1")) = 3
    /\ ~IsInvalid(RawResultsOf("i1")[1])
    /\ IsInvalid(RawResultsOf("i1")[2])
    /\ ~IsInvalid(RawResultsOf("i1")[3])
    /\ outcome["i1"].exc = "ValueError: Invalid search result, content is missing from the result"
    /\ documents["i1"] = <<>>

-----------------------------------------------------------------------------
\* C9: an invocation issues exactly one remote call, after its request is
\* built and before any result is decoded, and never a second one, also with
\* a nextToken in the config; when the call raises, the invocation raises
\* the same error, with no documents and nothing decoded or filtered.
C9_OneRemoteCall ==
    \A i \in Invocations :
        /\ Len(calls[i]) <= 1
        /\ pc[i] \in {"idle", "169", "170"} => calls[i] = <<>>
        /\ pc[i] \in {"174", "176", "returned", "raised"} =>
            /\ Len(calls[i]) = 1
            /\ calls[i][1].request =
                    _get_retrieve_request(knowledge_base_id, retrieval_config, query[i])
        /\ pc[i] \in {"idle", "169", "170", "174"} => documents[i] = <<>>
        /\ pc[i] = "174" => results[i] = RawResultsOf(i)
        /\ (Len(calls[i]) = 1 /\ Answer(i).exc # "") =>
            /\ pc[i] = "raised"
            /\ outcome[i] = Raise(Answer(i).exc)
            /\ documents[i] = <<>>
            /\ results[i] = <<>>

\* with a nextToken configured, one invocation returned documents after its
\* one call and the other raised the error of its one call
C9_Witness ==
    /\ retrieval_config # None
    /\ retrieval_config.d["nextToken"] = Str(<<"tok">>)
    /\ pc["i1"] = "returned"
    /\ Len(outcome["i1"].val.l) = 2
    /\ Len(calls["i1"]) = 1
    /\ Has(calls["i1"][1].request.d["retrievalConfiguration"], "nextToken")
    /\ pc["i2"] = "raised"
    /\ Len(calls["i2"]) = 1
    /\ Answer("i2").exc \in ClientErrors
    /\ outcome["i2"].exc = Answer("i2").exc

\* the locals of invocation i
Locals(i) ==
    <<query[i], retrieve_request[i], results[i], documents[i], outcome[i], calls[i]>>

\* what invocation i returns or raises when it runs alone with its answer
Alone(i) ==
    IF Answer(i).exc # "" THEN Raise(Answer(i).exc)
    ELSE LET conv == _retrieval_results_to_documents(RawResultsOf(i))
         IN  IF conv.exc # "" THEN Raise(conv.exc)
             ELSE Return(List(_filter_by_score_confidence(min_score_confidence, conv.documents)))

\* C10: no step of an invocation changes the retriever's knowledge_base_id,
\* retrieval_config, min_score_confidence or client, nor the locals of
\* another invocation, and what an invocation returns or raises is what it
\* returns or raises when run alone with its query and its answer.
C10_Isolation ==
    /\ [][ /\ selfVars' = selfVars
           /\ \A i \in Invocations : pc'[i] = pc[i] => Locals(i)' = Locals(i) ]_vars
    /\ [](\A i \in Invocations : pc[i] \in {"returned", "raised"} => outcome[i] = Alone(i))

\* two invocations with different queries ended differently: one returned
\* documents, the other raised on a result without content
C10_Witness ==
    /\ pc["i1"] = "returned"
    /\ pc["i2"] = "raised"
    /\ query["i1"] # query["i2"]
    /\ Len(outcome["i1"].val.l) = 2
    /\ Answer("i2").exc = ""
    /\ outcome["i2"].exc = "ValueError: Invalid search result, content is missing from the result"

====
